---- MODULE Spec2Model ----
(***************************************************************************)
(* Model of clean_audio.py (darkstorm-lang/clean-audio): the silence       *)
(* trimmer CleanAudio.trim_silence, the RMS dump CleanAudio.dump_rms and   *)
(* the per-clip pipeline CleanAudio.clean_audio.                           *)
(*                                                                         *)
(* A waveform (pydub AudioSegment, lengths in ms) is modelled by the RMS   *)
(* of each of its whole silence_slice-wide slices plus the length of the   *)
(* final partial slice:  [kind |-> "seg", rms |-> <<r0, r1, ...>>,         *)
(* tail |-> 0..9].  Every sub-range the trimmer takes starts on a slice    *)
(* boundary, so sub-ranges are waveforms of the same shape.                *)
(*                                                                         *)
(* RMS values are ranks on the scale the code compares them on: only the   *)
(* comparisons rms > silence_thresh, noise_peak > burst_thresh and         *)
(* rms > noise_peak read them.                                             *)
(***************************************************************************)
EXTENDS Integers, Sequences, FiniteSets, TLC

VARIABLES mode, seg, cur, pc, calls, printed, disk, store, run, hist

vars == <<mode, seg, cur, pc, calls, printed, disk, store, run, hist>>

\* The variables of one clip's processing and those of the Anki sync.
clipvars == <<mode, seg, cur, pc, calls>>
syncvars == <<disk, store, run, hist>>

----------------------------------------------------------------------------
(* Program constants *)

TRIM_START == 0
TRIM_END == 1

silence_slice == 10
leading_ms == 250
max_noise == 100
end_extra_ms == 200

\* silence_thresh and burst_thresh are the two absolute RMS magnitudes the
\* code derives from -50 dB and -20 dB; burst_thresh > silence_thresh.
silence_thresh == 1
burst_thresh == 2

\* Python's None, for noise_start and noise_peak (both are >= 0 when set).
None == -1

----------------------------------------------------------------------------
(* Bounds of the model *)

MaxSpans == 3
MaxCalls == 2

\* RMS values: quiet (0), exactly the silence threshold, exactly the burst
\* threshold (noisy, not above burst), above the burst threshold.
Levels == {0, silence_thresh, burst_thresh, burst_thresh + 1}

\* Lengths, in slices, of a span of equal-RMS slices: one slice, and the
\* longest run the gap rule does not confirm (max_noise plus one slice).
\* Two adjacent spans of one level make the longer runs.
BurstLen == max_noise \div silence_slice + 1
SpanLens == {1, BurstLen}

\* Lengths in ms of the final partial slice.
Tails == {0, 5}

----------------------------------------------------------------------------
(* Waveforms *)

Rep(v, n) == [i \in 1..n |-> v]

RECURSIVE Flatten(_)
Flatten(spans) ==
    IF spans = <<>> THEN <<>>
    ELSE Rep(Head(spans)[1], Head(spans)[2]) \o Flatten(Tail(spans))

SpanSeqs(n) == UNION {[1..k -> Levels \X SpanLens] : k \in 0..n}

Seg(rms, tail) == [kind |-> "seg", rms |-> rms, tail |-> tail]

\* The empty Python list returned for a clip shorter than one slice.
EmptyList == [kind |-> "list", rms |-> <<>>, tail |-> 0]

\* len(seg): milliseconds for an AudioSegment, 0 for the empty list.
len(s) == Len(s.rms) * silence_slice + s.tail

\* seg[lo:hi] for lo on a slice boundary and lo <= hi <= len(seg).
Slice(s, lo, hi) ==
    Seg(SubSeq(s.rms, lo \div silence_slice + 1,
               lo \div silence_slice + (hi - lo) \div silence_slice),
        (hi - lo) % silence_slice)

\* seg[start_ms:end_ms].rms for the slice starting at start_ms.
SliceRms(s, start_ms) == s.rms[start_ms \div silence_slice + 1]

----------------------------------------------------------------------------
(* trim_silence *)

\* What a call of trim_silence ends with: "list" (return []), "range"
\* (return seg[lo:hi]), "seg" (return seg), "AttributeError" (the lookup of
\* math.max raises: module math has no max), or "none" while it still scans.
Ret(kind, lo, hi) == [kind |-> kind, lo |-> lo, hi |-> hi]
NoRet == Ret("none", 0, 0)

Abs(x) == IF x < 0 THEN -x ELSE x

\* The early return taken for the empty clip only.
TooShort_OnlyEmpty(seg_len) == seg_len = 0

\* seg_len < self._silence_slice
TooShort(seg_len) == seg_len < silence_slice

\* The indices never reversed.
indices_Forward(seg_len, trim) ==
    [k \in 1..(seg_len \div silence_slice) |-> k - 1]

\* indices: range(int(seg_len / slice)), reversed for TRIM_END.
indices(seg_len, trim) ==
    LET n == seg_len \div silence_slice
    IN  IF trim = TRIM_END THEN [k \in 1..n |-> n - k]
        ELSE [k \in 1..n |-> k - 1]

\* A tie with the silence threshold counted as noise.
IsNoisy_Tie(rms) == rms >= silence_thresh

\* seg_slice.rms > silence_thresh
IsNoisy(rms) == rms > silence_thresh

\* A tie with the burst threshold counted as exceeding it.
ExceededBurst_Tie(noise_peak) == noise_peak >= burst_thresh

\* The run never dropped at a quiet slice.
ExceededBurst_Never(noise_peak) == FALSE

\* The test the other way round: the run is dropped when its peak stayed
\* at or below the burst threshold.
ExceededBurst_Inverted(noise_peak) == noise_peak <= burst_thresh

\* noise_peak > burst_thresh
ExceededBurst(noise_peak) == noise_peak > burst_thresh

\* The gap rule one slice late.
GapExceeded_Late(start_ms, noise_start) ==
    Abs(start_ms - noise_start) > max_noise + silence_slice

\* abs(start_ms - noise_start) > max_noise
GapExceeded(start_ms, noise_start) == Abs(start_ms - noise_start) > max_noise

\* EndBoundary without the trailing margin.
EndBoundary_NoMargin(noise_start, seg_len) ==
    LET end == noise_start + silence_slice
    IN  IF end > seg_len THEN seg_len ELSE end

\* EndBoundary without the slice that holds the boundary.
EndBoundary_NoSlice(noise_start, seg_len) ==
    LET end == noise_start + end_extra_ms
    IN  IF end > seg_len THEN seg_len ELSE end

\* end = noise_start + slice + end_extra_ms; if end > seg_len: end = seg_len
EndBoundary(noise_start, seg_len) ==
    LET end == noise_start + silence_slice + end_extra_ms
    IN  IF end > seg_len THEN seg_len ELSE end

\* The return inside the loop with the two directions exchanged.
ConfirmedInScan_Swapped(trim, noise_start, seg_len) ==
    IF trim = TRIM_END THEN Ret("range", noise_start, seg_len)
    ELSE Ret("range", 0, EndBoundary(noise_start, seg_len))

\* The return inside the loop, once the run is longer than a burst.
ConfirmedInScan(trim, noise_start, seg_len) ==
    IF trim = TRIM_START THEN Ret("range", noise_start, seg_len)
    ELSE Ret("range", 0, EndBoundary(noise_start, seg_len))

\* The code after the loop.  For TRIM_START with a run still open it
\* evaluates math.max(noise_start - leading_ms, 0), which raises.
AfterScan(trim, noise_start, seg_len) ==
    IF noise_start # None
    THEN IF trim = TRIM_START THEN Ret("AttributeError", 0, 0)
         ELSE Ret("range", 0, EndBoundary(noise_start, seg_len))
    ELSE Ret("seg", 0, seg_len)

\* The scan's locals before the first slice.
ScanInit == [noise_start |-> None, noise_peak |-> None, ret |-> NoRet]

\* One iteration of the loop, for slice idx, from the locals st.
LoopBody(s, trim, idx, st) ==
    LET start_ms == idx * silence_slice
        rms == SliceRms(s, start_ms)
    IN  IF IsNoisy(rms)
        THEN LET peak1 == IF st.noise_peak = None THEN rms ELSE st.noise_peak
                 peak2 == IF rms > peak1 THEN rms ELSE peak1
             IN  IF st.noise_start = None
                 THEN [noise_start |-> start_ms, noise_peak |-> peak2, ret |-> NoRet]
                 ELSE IF GapExceeded(start_ms, st.noise_start)
                      THEN [noise_start |-> st.noise_start, noise_peak |-> peak2,
                            ret |-> ConfirmedInScan(trim, st.noise_start, len(s))]
                      ELSE [noise_start |-> st.noise_start, noise_peak |-> peak2,
                            ret |-> NoRet]
        ELSE IF st.noise_start # None /\ ExceededBurst(st.noise_peak)
             THEN [st EXCEPT !.noise_start = None]
             ELSE st

\* The loop: the locals after each iteration, in scan order, up to and
\* including the iteration that returns.  st holds the locals before slice
\* ixs[k]; Continue takes them after it.
RECURSIVE Scan(_, _, _, _, _, _), Continue(_, _, _, _, _, _)
Scan(s, trim, ixs, k, st, trace) ==
    IF k > Len(ixs) THEN trace
    ELSE Continue(s, trim, ixs, k, LoopBody(s, trim, ixs[k], st), trace)
Continue(s, trim, ixs, k, nx, trace) ==
    IF nx.ret # NoRet THEN Append(trace, [idx |-> ixs[k], st |-> nx])
    ELSE Scan(s, trim, ixs, k + 1, nx, Append(trace, [idx |-> ixs[k], st |-> nx]))

\* The locals when the loop is left.
LastState(trace) == IF trace = <<>> THEN ScanInit ELSE trace[Len(trace)].st

\* How the call ends once the loop is left with the locals last.
Outcome(trim, seg_len, last) ==
    IF last.ret # NoRet THEN last.ret
    ELSE AfterScan(trim, last.noise_start, seg_len)

Traced(trim, seg_len, trace) ==
    [ret |-> Outcome(trim, seg_len, LastState(trace)), trace |-> trace]

\* trim_silence(seg, trim): how the call ends, and the trace of its scan.
trim_silence(s, trim) ==
    IF TooShort(len(s)) THEN [ret |-> Ret("list", 0, 0), trace |-> <<>>]
    ELSE Traced(trim, len(s),
                Scan(s, trim, indices(len(s), trim), 1, ScanInit, <<>>))

\* The value a call hands back (nothing when it raises).
ValueOf(s, ret) ==
    CASE ret.kind = "list" -> EmptyList
      [] ret.kind = "range" -> Slice(s, ret.lo, ret.hi)
      [] OTHER -> s

Raised(ret) == ret.kind = "AttributeError"

----------------------------------------------------------------------------
(* dump_rms *)

\* The range with the last whole window included.
DumpIndices_Inclusive(seg_len) ==
    [k \in 1..(seg_len - silence_slice + 1) |-> k - 1]

\* range(seg_len - self._silence_slice): the window start offsets.
DumpIndices(seg_len) == [k \in 1..(seg_len - silence_slice) |-> k - 1]

\* One printed line per window seg[idx:idx + slice]; the line is the dB value
\* of that window's RMS, modelled by the window it is computed from.
dump_rms(s) ==
    LET ixs == DumpIndices(len(s))
    IN  [k \in 1..Len(ixs) |-> [lo |-> ixs[k], hi |-> ixs[k] + silence_slice]]

----------------------------------------------------------------------------
(* normalize (pydub.effects) and clean_audio *)

\* normalize(seg, headroom=0.3) applies one gain to the whole clip: every
\* slice's RMS moves the same way, silence stays silence, the length stays.
Gains == {-1, 0, 1}

MaxLevel == burst_thresh + 1

ApplyGain(r, g) ==
    IF r = 0 THEN 0
    ELSE IF r + g < 0 THEN 0
    ELSE IF r + g > MaxLevel THEN MaxLevel
    ELSE r + g

normalize(s, g) == Seg([i \in 1..Len(s.rms) |-> ApplyGain(s.rms[i], g)], s.tail)

\* clean_audio normalizing after the trims.
clean_audio_body_NormalizeLast ==
    << [fn |-> "trim_silence", trim |-> TRIM_START],
       [fn |-> "trim_silence", trim |-> TRIM_END],
       [fn |-> "normalize", trim |-> None] >>

\* The statements of clean_audio, in program order.
clean_audio_body ==
    << [fn |-> "normalize", trim |-> None],
       [fn |-> "trim_silence", trim |-> TRIM_START],
       [fn |-> "trim_silence", trim |-> TRIM_END] >>

----------------------------------------------------------------------------
(* Anki sync: the media directory, the hash store, AudioFiles *)

\* The files the media directory may hold, in the order os.walk yields them
\* (the directory's own files, then those of its sub-directory), with
\* path.basename and path.splitext of each.
WalkOrder == <<"a.mp3", "b.3gp", "n.txt", "sub/a.mp3">>
Paths == {WalkOrder[k] : k \in DOMAIN WalkOrder}
Basename == [p \in Paths |-> IF p = "sub/a.mp3" THEN "a.mp3" ELSE p]
Ext == [p \in Paths |->
          CASE Basename[p] = "a.mp3" -> ".mp3"
            [] Basename[p] = "b.3gp" -> ".3gp"
            [] OTHER -> ".txt"]
Basenames == {Basename[p] : p \in Paths}

\* File contents; Absent where the directory has no such file.
Contents == {"x", "y"}
Absent == "absent"

is_audio_extension(ext) == ext \in {".wav", ".mp3", ".3gp"}

\* get_file_sha1: the digest of a file's content (equal contents, equal
\* digests; different contents, different digests).
get_file_sha1(content) == <<"sha1", content>>

\* No entry for a basename in info['files'].
NoEntry == <<>>
NoEntries == [b \in Basenames |-> NoEntry]

\* load_info_file: the stored dictionary, or {'files': {}} when
\* clean_audio.json does not exist.
load_info_file(st) == IF st.exists THEN st.files ELSE NoEntries

\* get_new_audio_files: the walk from WalkOrder[k] on, with the in-memory
\* info and the files selected so far.
RECURSIVE get_new_audio_files(_, _, _, _)
get_new_audio_files(d, k, info, audio_files) ==
    IF k > Len(WalkOrder) THEN [info |-> info, audio_files |-> audio_files]
    ELSE LET name == WalkOrder[k]
             basename == Basename[name]
             new_sha1 == get_file_sha1(d[name])
         IN  IF d[name] = Absent \/ ~is_audio_extension(Ext[name])
             THEN get_new_audio_files(d, k + 1, info, audio_files)
             ELSE IF info[basename] # NoEntry /\ info[basename] = new_sha1
                  THEN get_new_audio_files(d, k + 1, info, audio_files)
                  ELSE get_new_audio_files(d, k + 1,
                           [info EXCEPT ![basename] = new_sha1],
                           Append(audio_files, name))

\* update_hashes: the digest of every selected file as it is now on disk.
RECURSIVE update_hashes(_, _, _, _)
update_hashes(d, audio_files, k, info) ==
    IF k > Len(audio_files) THEN info
    ELSE update_hashes(d, audio_files, k + 1,
             [info EXCEPT ![Basename[audio_files[k]]] =
                              get_file_sha1(d[audio_files[k]])])

\* CleanAudio.run over the selected files: an .mp3 or .wav file is cleaned
\* and exported to the temporary directory under its basename, or
\* clean_audio raises (trim_silence's AttributeError) and the run stops; with
\* --dump-rms it is dumped and nothing is exported; a .3gp file is skipped.
\* outs[k] is what cleaning file k gives.
Raise == "raise"
RECURSIVE run_clean(_, _, _, _, _)
run_clean(input_files, k, dump, outs, temp) ==
    IF k > Len(input_files) THEN [temp |-> temp, raised |-> FALSE]
    ELSE IF Ext[input_files[k]] \in {".mp3", ".wav"} /\ ~dump
         THEN IF outs[k] = Raise THEN [temp |-> temp, raised |-> TRUE]
              ELSE run_clean(input_files, k + 1, dump, outs,
                       [temp EXCEPT ![Basename[input_files[k]]] = outs[k]])
         ELSE run_clean(input_files, k + 1, dump, outs, temp)

NoTemp == [b \in Basenames |-> Absent]

\* The files of the media directory itself, by basename, in walk order.
TempOrder == <<"a.mp3", "b.3gp", "n.txt">>

\* The copy back: for each file of the temporary directory, unlink the file
\* of that name in the media directory (which raises when there is none),
\* then copy.
RECURSIVE copy_back(_, _, _)
copy_back(d, temp, k) ==
    IF k > Len(TempOrder) THEN [disk |-> d, raised |-> FALSE]
    ELSE LET filename == TempOrder[k]
         IN  IF temp[filename] = Absent THEN copy_back(d, temp, k + 1)
             ELSE IF d[filename] = Absent THEN [disk |-> d, raised |-> TRUE]
             ELSE copy_back([d EXCEPT ![filename] = temp[filename]], temp, k + 1)

\* main's branch on the selected files and --simulate with the directions
\* of --simulate ignored.
main_branch_IgnoreSimulate(files_to_update, simulate) ==
    IF files_to_update # <<>> THEN "process" ELSE "nothing"

\* main's branch on the selected files and --simulate.
main_branch(files_to_update, simulate) ==
    IF files_to_update # <<>>
    THEN IF simulate THEN "list" ELSE "process"
    ELSE "nothing"

\* No sync run in progress.
IdleRun ==
    [pc |-> "idle", simulate |-> FALSE, dump_rms |-> FALSE, info |-> NoEntries, audio_files |-> <<>>,
     temp |-> NoTemp, disk0 |-> [p \in Paths |-> Absent],
     store0 |-> [exists |-> FALSE, files |-> NoEntries]]

NoHist == [n |-> 0, last |-> [simulate |-> FALSE, audio_files |-> <<>>,
                               outcome |-> "none",
                               disk0 |-> [p \in Paths |-> Absent],
                               store0 |-> [exists |-> FALSE, files |-> NoEntries]]]

----------------------------------------------------------------------------
(* Inputs *)

\* Every clip of up to MaxSpans spans; a clip of no span is shorter than one
\* slice.
SpanWaves ==
    {Seg(Flatten(sp), t) : sp \in SpanSeqs(MaxSpans), t \in Tails}

Loud == burst_thresh + 1

\* Leading silence, a noisy span, a quiet stretch, a second noisy span.
GapWaves ==
    {Seg(Rep(0, a) \o Rep(l, b) \o Rep(0, c) \o Rep(Loud, d), t) :
        a \in {1, 2}, l \in {burst_thresh, Loud},
        b \in {1, BurstLen, BurstLen + 1, BurstLen + 2},
        c \in {BurstLen - 1, BurstLen, BurstLen + 1},
        d \in {1, BurstLen + 1}, t \in Tails}

\* The 1000 ms clip: quiet to 300 ms, loud to 700 ms, quiet to the end.
ScenarioWave == Seg(Rep(0, 30) \o Rep(Loud, 40) \o Rep(0, 30), 0)

TrimWaves == SpanWaves \cup GapWaves \cup {ScenarioWave}

DumpWaves ==
    {Seg(Rep(0, n), t) : n \in 0..MaxSpans, t \in 0..(silence_slice - 1)}

Inputs(m) == IF m = "dump" THEN DumpWaves ELSE TrimWaves

----------------------------------------------------------------------------
(* State machine *)

\* mode    the entry point driven: trim_silence called directly ("trim"),
\*         clean_audio ("clean") or dump_rms ("dump")
\* seg     the caller's waveform
\* cur     the value the next call takes (clean_audio's local seg)
\* status  "running", "returned" or "raised"
\* calls   the calls made so far, each with argument, outcome and scan trace
\* printed the lines dump_rms has printed

Call(fn, trim, arg, ret, val, trace) ==
    [fn |-> fn, trim |-> trim, arg |-> arg, ret |-> ret, val |-> val,
     trace |-> trace]

Init ==
    /\ mode \in {"trim", "clean", "dump"}
    /\ seg \in Inputs(mode)
    /\ cur = seg
    /\ pc = "running"
    /\ calls = <<>>
    /\ printed = <<>>
    /\ disk = [p \in Paths |-> Absent]
    /\ store = [exists |-> FALSE, files |-> NoEntries]
    /\ run = IdleRun
    /\ hist = NoHist

\* A direct call trim_silence(cur, t); its result feeds the next call.
CallTrimSilence(t) ==
    /\ mode = "trim"
    /\ pc = "running"
    /\ Len(calls) < MaxCalls
    /\ \E r \in {trim_silence(cur, t)} : \E v \in {ValueOf(cur, r.ret)} :
           /\ calls' = Append(calls, Call("trim_silence", t, cur, r.ret, v, r.trace))
           /\ cur' = v
           /\ pc' = IF Raised(r.ret) THEN "raised" ELSE "running"
    /\ UNCHANGED <<mode, seg, printed, syncvars>>

\* The next statement of clean_audio.
CleanAudioStep ==
    /\ mode = "clean"
    /\ pc = "running"
    /\ LET stmt == clean_audio_body[Len(calls) + 1]
           last == Len(calls) + 1 = Len(clean_audio_body)
       IN  IF stmt.fn = "normalize"
           THEN \E g \in Gains :
                  LET v == normalize(cur, g)
                  IN  /\ calls' = Append(calls,
                                    Call("normalize", None, cur, Ret("seg", 0, len(v)), v, <<>>))
                      /\ cur' = v
                      /\ pc' = IF last THEN "returned" ELSE "running"
           ELSE \E r \in {trim_silence(cur, stmt.trim)} : \E v \in {ValueOf(cur, r.ret)} :
                    /\ calls' = Append(calls,
                                  Call("trim_silence", stmt.trim, cur, r.ret, v, r.trace))
                    /\ cur' = v
                    /\ pc' = IF Raised(r.ret) THEN "raised"
                             ELSE IF last THEN "returned" ELSE "running"
    /\ UNCHANGED <<mode, seg, printed, syncvars>>

\* dump_rms(seg).
DumpRms ==
    /\ mode = "dump"
    /\ pc = "running"
    /\ printed' = dump_rms(cur)
    /\ pc' = "returned"
    /\ UNCHANGED <<mode, seg, cur, calls, syncvars>>

Next ==
    \/ \E t \in {TRIM_START, TRIM_END} : CallTrimSilence(t)
    \/ CleanAudioStep
    \/ DumpRms

Spec == Init /\ [][Next]_vars

----------------------------------------------------------------------------
(* Anki sync: main with --anki *)

\* disk   the media directory: the content of each path, or Absent
\* store  clean_audio.json: whether it exists, and its 'files' dictionary
\* run    the sync run in progress: where it is, --simulate, AudioFiles'
\*        _info and audio_files, the temporary directory, and the directory
\*        and store as the run found them
\* hist   the number of runs ended and the last of them

MaxRuns == 2

Stores ==
    {[exists |-> FALSE, files |-> NoEntries]} \cup
    {[exists |-> TRUE, files |-> f] :
        f \in [Basenames -> {NoEntry} \cup {get_file_sha1(c) : c \in Contents}]}

SyncInit ==
    /\ mode = "sync"
    /\ seg = EmptyList
    /\ cur = EmptyList
    /\ pc = "running"
    /\ calls = <<>>
    /\ printed = <<>>
    /\ disk \in [Paths -> Contents \cup {Absent}]
    /\ disk["n.txt"] # "y"
    /\ store \in Stores
    /\ store.files["n.txt"] = NoEntry
    /\ run = IdleRun
    /\ hist = NoHist

EndRun(outcome) ==
    /\ run' = IdleRun
    /\ hist' = [n |-> hist.n + 1,
                last |-> [simulate |-> run.simulate, audio_files |-> run.audio_files,
                          outcome |-> outcome, disk0 |-> run.disk0,
                          store0 |-> run.store0]]

\* A run starts: AudioFiles.__init__ loads the store and walks the directory.
SyncStart(simulate, dump) ==
    /\ mode = "sync"
    /\ run.pc = "idle"
    /\ hist.n < MaxRuns
    /\ \E r \in {get_new_audio_files(disk, 1, load_info_file(store), <<>>)} :
           run' = [pc |-> "selected", simulate |-> simulate,
                   dump_rms |-> dump, info |-> r.info,
                   audio_files |-> r.audio_files, temp |-> NoTemp,
                   disk0 |-> disk, store0 |-> store]
    /\ printed' = <<>>
    /\ UNCHANGED <<clipvars, disk, store, hist>>

\* --simulate: the selected files are printed.
SyncList ==
    /\ run.pc = "selected"
    /\ main_branch(run.audio_files, run.simulate) = "list"
    /\ printed' = run.audio_files
    /\ EndRun("listed")
    /\ UNCHANGED <<clipvars, disk, store>>

\* No file selected.
SyncNothing ==
    /\ run.pc = "selected"
    /\ main_branch(run.audio_files, run.simulate) = "nothing"
    /\ printed' = <<"Nothing needs to be done.">>
    /\ EndRun("nothing")
    /\ UNCHANGED <<clipvars, disk, store>>

\* CleanAudio(args).run() into the temporary directory.
SyncClean ==
    /\ run.pc = "selected"
    /\ main_branch(run.audio_files, run.simulate) = "process"
    /\ \E outs \in [1..Len(run.audio_files) -> Contents \cup {Raise}] :
         \E r \in {run_clean(run.audio_files, 1, run.dump_rms, outs, NoTemp)} :
           IF r.raised THEN EndRun("raised")
           ELSE /\ run' = [run EXCEPT !.pc = "cleaned", !.temp = r.temp]
                /\ hist' = hist
    /\ UNCHANGED <<clipvars, printed, disk, store>>

\* The cleaned files are copied back over the originals.
SyncCopyBack ==
    /\ run.pc = "cleaned"
    /\ \E r \in {copy_back(disk, run.temp, 1)} :
           /\ disk' = r.disk
           /\ IF r.raised THEN EndRun("raised")
              ELSE /\ run' = [run EXCEPT !.pc = "copied", !.temp = NoTemp]
                   /\ hist' = hist
    /\ UNCHANGED <<clipvars, printed, store>>

\* profile.save_info_file(): update_hashes, then the store is written.
SyncSave ==
    /\ run.pc = "copied"
    /\ store' = [exists |-> TRUE,
                 files |-> update_hashes(disk, run.audio_files, 1, run.info)]
    /\ EndRun("saved")
    /\ UNCHANGED <<clipvars, printed, disk>>

SyncNext ==
    \/ \E simulate \in BOOLEAN, dump \in BOOLEAN : SyncStart(simulate, dump)
    \/ SyncList
    \/ SyncNothing
    \/ SyncClean
    \/ SyncCopyBack
    \/ SyncSave

SyncSpec == SyncInit /\ [][SyncNext]_vars

----------------------------------------------------------------------------
(* Vocabulary of the properties *)

TrimCalls == {i \in DOMAIN calls : calls[i].fn = "trim_silence"}

Slices(s) == Len(s.rms)

QuietRms(r) == r <= silence_thresh
NoisyRms(r) == r > silence_thresh
LoudRms(r) == r > silence_thresh /\ r > burst_thresh

Range(lo, hi) == Ret("range", lo, hi)

\* The call returned a waveform (a sub-range of its argument or the
\* argument itself).
ReturnedWaveform(c) == c.ret.kind \in {"range", "seg"}

----------------------------------------------------------------------------
(* C1 *)

\* C1: for every waveform of at least one slice, both directions and every
\* sequence of slice RMS values, trim_silence returns a waveform; no
\* execution ends in an exception.  The empty result is only for a waveform
\* shorter than one slice.
C1_NeverRaises ==
    \A i \in TrimCalls :
        /\ len(calls[i].arg) >= silence_slice => ReturnedWaveform(calls[i])
        /\ calls[i].ret.kind = "list" => len(calls[i].arg) < silence_slice

----------------------------------------------------------------------------
(* C2 *)

ScenarioRun ==
    /\ mode = "trim"
    /\ Len(calls) = 2
    /\ calls[1].arg = ScenarioWave
    /\ calls[1].trim = TRIM_START
    /\ calls[2].trim = TRIM_END

\* C2 as stated: on the 1000 ms scenario trim_silence(START) returns
\* 300 ms..1000 ms and trim_silence(END) of that result returns its first
\* 510 ms.
C2_ScenarioAsStated ==
    ScenarioRun =>
        /\ calls[1].ret = Range(300, 1000)
        /\ len(calls[1].val) = 700
        /\ calls[2].arg = calls[1].val
        /\ calls[2].ret = Range(0, 510)

\* C2 amended: on the 1000 ms scenario trim_silence(START) returns
\* 300 ms..1000 ms (700 ms long) and trim_silence(END) of that result returns
\* its first 600 ms: the backward scan opens its run at the last loud slice,
\* 390 ms, and keeps 390 + 10 + 200 ms.
C2_Scenario ==
    ScenarioRun =>
        /\ calls[1].ret = Range(300, 1000)
        /\ len(calls[1].val) = 700
        /\ calls[2].arg = calls[1].val
        /\ calls[2].ret = Range(0, 600)
        /\ len(calls[2].val) = 600

C2_Witness ==
    /\ ScenarioRun
    /\ calls[2].trace[Len(calls[2].trace)].st.noise_start = 390

----------------------------------------------------------------------------
(* C3 *)

\* The noisy slices of a waveform, as slice indices from 0.
NoisySlices(s) == {i \in 0..(Slices(s) - 1) : NoisyRms(s.rms[i + 1])}

\* Exactly one noisy slice, with a quiet slice on each side of it.
IsClickWave(s) ==
    /\ Slices(s) >= 3
    /\ Cardinality(NoisySlices(s)) = 1
    /\ \A i \in NoisySlices(s) : 0 < i /\ i < Slices(s) - 1

ClickIdx(s) == CHOOSE i \in NoisySlices(s) : TRUE

\* The position in the scan trace of the iteration that analysed slice idx.
TracePos(trace, idx) == CHOOSE k \in DOMAIN trace : trace[k].idx = idx

\* The run the click opened is closed by the first quiet slice scanned after
\* it, and the call returns its argument untrimmed.
ClickRejected(c) ==
    LET k == TracePos(c.trace, ClickIdx(c.arg))
    IN  /\ c.trace[k].st.noise_start = ClickIdx(c.arg) * silence_slice
        /\ k + 1 \in DOMAIN c.trace
        /\ c.trace[k + 1].st.noise_start = None
        /\ c.ret.kind = "seg"

\* C3 as stated: a single noisy slice whose RMS does not exceed the burst
\* threshold, quiet on both sides: in either direction the run is closed at
\* the first quiet slice scanned after it and its offset is not the boundary
\* of the result.
C3_QuietClickRejected ==
    \A i \in TrimCalls :
        ( /\ IsClickWave(calls[i].arg)
          /\ ~LoudRms(calls[i].arg.rms[ClickIdx(calls[i].arg) + 1]) )
        => ClickRejected(calls[i])

\* C3 amended: a single noisy slice whose RMS exceeds the burst threshold,
\* quiet on both sides: in either direction the run is closed at the first
\* quiet slice scanned after it and the call returns its argument untrimmed,
\* so the click's offset is never the boundary of the result.
C3_LoudClickRejected ==
    \A i \in TrimCalls :
        ( /\ IsClickWave(calls[i].arg)
          /\ LoudRms(calls[i].arg.rms[ClickIdx(calls[i].arg) + 1]) )
        => ClickRejected(calls[i])

C3_Witness ==
    /\ Len(calls) = 2
    /\ calls[1].fn = "trim_silence" /\ calls[1].trim = TRIM_START
    /\ calls[2].fn = "trim_silence" /\ calls[2].trim = TRIM_END
    /\ IsClickWave(calls[2].arg)
    /\ LoudRms(calls[2].arg.rms[ClickIdx(calls[2].arg) + 1])
    /\ calls[1].arg = calls[2].arg
    /\ ClickRejected(calls[1])
    /\ ClickRejected(calls[2])

----------------------------------------------------------------------------
(* C4 *)

\* The last slice (from 1) of the maximal stretch starting at slice i whose
\* slices are all quiet (q) or all noisy (~q); i - 1 when slice i is not.
RECURSIVE StretchEnd(_, _, _)
StretchEnd(rms, i, q) ==
    IF i > Len(rms) \/ QuietRms(rms[i]) # q THEN i - 1
    ELSE StretchEnd(rms, i + 1, q)

\* Leading silence, a noisy span, a quiet stretch longer than max_noise, a
\* second noisy span to the end: where each ends, in slices.
LeadEnd(s) == StretchEnd(s.rms, 1, TRUE)
FirstSpanEnd(s) == StretchEnd(s.rms, LeadEnd(s) + 1, FALSE)
GapEnd(s) == StretchEnd(s.rms, FirstSpanEnd(s) + 1, TRUE)
SecondSpanEnd(s) == StretchEnd(s.rms, GapEnd(s) + 1, FALSE)

IsTwoSpanWave(s) ==
    /\ LeadEnd(s) >= 1
    /\ FirstSpanEnd(s) > LeadEnd(s)
    /\ (GapEnd(s) - FirstSpanEnd(s)) * silence_slice > max_noise
    /\ SecondSpanEnd(s) > GapEnd(s)
    /\ SecondSpanEnd(s) = Slices(s)
    /\ \A i \in 1..Slices(s) : NoisyRms(s.rms[i]) => LoudRms(s.rms[i])

FirstSpanStart(s) == LeadEnd(s) * silence_slice
FirstSpanSlices(s) == FirstSpanEnd(s) - LeadEnd(s)

\* C4 as stated: START on leading silence, two loud spans of at least one
\* slice each and a quiet stretch longer than max_gap_ms between them
\* returns the waveform from the first span's start.
C4_FirstSpanIsBoundary ==
    \A i \in TrimCalls :
        (calls[i].trim = TRIM_START /\ IsTwoSpanWave(calls[i].arg))
        => calls[i].ret = Range(FirstSpanStart(calls[i].arg), len(calls[i].arg))

\* C4 amended: the same, for a first span of at least 12 slices, that is one
\* whose last slice starts more than max_gap_ms after its first: START
\* returns the waveform from the first span's start.  (A shorter loud first
\* span is dropped as a burst at the quiet slice that follows it.)
C4_LongFirstSpanIsBoundary ==
    \A i \in TrimCalls :
        ( /\ calls[i].trim = TRIM_START
          /\ IsTwoSpanWave(calls[i].arg)
          /\ (FirstSpanSlices(calls[i].arg) - 1) * silence_slice > max_noise )
        => calls[i].ret = Range(FirstSpanStart(calls[i].arg), len(calls[i].arg))

C4_Witness ==
    \E i \in TrimCalls :
        /\ calls[i].trim = TRIM_START
        /\ IsTwoSpanWave(calls[i].arg)
        /\ FirstSpanSlices(calls[i].arg) = 12
        /\ calls[i].ret = Range(FirstSpanStart(calls[i].arg), len(calls[i].arg))

----------------------------------------------------------------------------
(* C5 *)

\* C5: for a waveform shorter than one slice (length 0 included)
\* trim_silence returns the empty result in both directions without scanning
\* a slice, and so does trim_silence of that empty result.
C5_ShortGivesEmpty ==
    \A i \in TrimCalls :
        len(calls[i].arg) < silence_slice =>
            /\ calls[i].ret.kind = "list"
            /\ calls[i].val = EmptyList
            /\ calls[i].trace = <<>>

C5_Witness ==
    /\ Len(calls) = 2
    /\ calls[1].fn = "trim_silence" /\ calls[2].fn = "trim_silence"
    /\ calls[1].arg.kind = "seg"
    /\ len(calls[1].arg) > 0 /\ len(calls[1].arg) < silence_slice
    /\ calls[1].trim = TRIM_END
    /\ calls[2].arg = EmptyList
    /\ calls[2].trim = TRIM_START
    /\ calls[2].val = EmptyList

----------------------------------------------------------------------------
(* C6 *)

\* C6: trim_silence(trim_silence(w, START), START) equals
\* trim_silence(w, START) for every waveform w: the first pass yields a
\* result, and a second pass over it yields the same result.
C6_StartIdempotent ==
    (mode = "trim" /\ Len(calls) >= 1 /\ calls[1].trim = TRIM_START) =>
        /\ ~Raised(calls[1].ret)
        /\ (Len(calls) >= 2 /\ calls[2].trim = TRIM_START) =>
               /\ ~Raised(calls[2].ret)
               /\ calls[2].val = calls[1].val

----------------------------------------------------------------------------
(* C7 *)

IsAllLoud(s) ==
    /\ Slices(s) >= 1
    /\ \A i \in 1..Slices(s) : LoudRms(s.rms[i])

\* C7: START on an all-loud waveform of at least one slice returns the full
\* waveform from offset 0, whatever its number of slices.
C7_AllLoudKept ==
    \A i \in TrimCalls :
        (calls[i].trim = TRIM_START /\ IsAllLoud(calls[i].arg)) =>
            /\ calls[i].ret \in {Range(0, len(calls[i].arg)),
                                 Ret("seg", 0, len(calls[i].arg))}
            /\ calls[i].val = calls[i].arg

----------------------------------------------------------------------------
(* C8 *)

IsAllSilent(s) ==
    /\ Slices(s) >= 1
    /\ \A i \in 1..Slices(s) : QuietRms(s.rms[i])

\* C8: on an all-silent waveform of at least one slice trim_silence returns
\* the input unchanged in both directions, every slice is scanned and no
\* noise run is ever opened.
C8_AllSilentUnchanged ==
    \A i \in TrimCalls :
        IsAllSilent(calls[i].arg) =>
            /\ calls[i].ret.kind = "seg"
            /\ calls[i].val = calls[i].arg
            /\ Len(calls[i].trace) = Slices(calls[i].arg)
            /\ \A k \in DOMAIN calls[i].trace :
                   /\ calls[i].trace[k].st.noise_start = None
                   /\ calls[i].trace[k].st.noise_peak = None

C8_Witness ==
    /\ Len(calls) = 2
    /\ calls[1].fn = "trim_silence" /\ calls[1].trim = TRIM_START
    /\ calls[2].fn = "trim_silence" /\ calls[2].trim = TRIM_END
    /\ IsAllSilent(calls[1].arg)
    /\ \E k \in 1..Slices(calls[1].arg) : calls[1].arg.rms[k] = silence_thresh
    /\ Slices(calls[1].arg) > BurstLen
    /\ calls[2].arg = calls[1].arg
    /\ calls[2].val = calls[1].arg

----------------------------------------------------------------------------
(* C9 *)

Max(a, b) == IF a > b THEN a ELSE b

\* C9: dump_rms on a waveform of length L prints exactly max(0, L - W)
\* values for slice width W, one per window start offset 0..L-W-1 in
\* increasing order, and none when L <= W.
C9_DumpCount ==
    (mode = "dump" /\ pc = "returned") =>
        /\ Len(printed) = Max(0, len(seg) - silence_slice)
        /\ \A k \in DOMAIN printed :
               /\ printed[k].lo = k - 1
               /\ printed[k].hi = printed[k].lo + silence_slice
               /\ printed[k].hi <= len(seg)
        /\ len(seg) <= silence_slice => printed = <<>>

C9_Witness ==
    /\ mode = "dump"
    /\ pc = "returned"
    /\ len(seg) > 2 * silence_slice
    /\ seg.tail > 0
    /\ Len(printed) = len(seg) - silence_slice

----------------------------------------------------------------------------
(* C10 *)

\* C10: clean_audio normalizes exactly once, first, then trims START, then
\* trims END on the START result: the calls made so far are always the
\* first calls of that order, each taking the value the one before returned.
C10_PipelineOrder ==
    mode = "clean" =>
        /\ Len(calls) <= 3
        /\ Len(calls) >= 1 => calls[1].fn = "normalize" /\ calls[1].arg = seg
        /\ Len(calls) >= 2 =>
               /\ calls[2].fn = "trim_silence"
               /\ calls[2].trim = TRIM_START
               /\ calls[2].arg = calls[1].val
        /\ Len(calls) >= 3 =>
               /\ calls[3].fn = "trim_silence"
               /\ calls[3].trim = TRIM_END
               /\ ~Raised(calls[2].ret)
               /\ calls[3].arg = calls[2].val
        /\ pc = "returned" => Len(calls) = 3 /\ cur = calls[3].val

C10_Witness ==
    /\ mode = "clean"
    /\ pc = "returned"
    /\ Len(calls) = 3
    /\ calls[1].val # calls[1].arg
    /\ calls[2].ret.kind = "range" /\ calls[2].ret.lo > 0
    /\ calls[3].ret.kind = "range" /\ calls[3].ret.hi < len(calls[3].arg)

----------------------------------------------------------------------------
(* Steps of a scan *)

\* The RMS of the slice iteration k of call c analysed, and the locals
\* before and after that iteration.
StepRms(c, k) == c.arg.rms[c.trace[k].idx + 1]
Before(c, k) == IF k = 1 THEN ScanInit ELSE c.trace[k - 1].st
After(c, k) == c.trace[k].st

\* Iteration k met a quiet slice while a run was open.
QuietInRun(c, k) ==
    /\ QuietRms(StepRms(c, k))
    /\ Before(c, k).noise_start # None

----------------------------------------------------------------------------
(* C13 *)

\* C13 as stated: in either direction, a quiet slice reached while a run is
\* open whose running peak has exceeded the burst threshold leaves the run
\* open: noise_start keeps its value across that slice.
C13_PauseKeepsLoudRun ==
    \A i \in TrimCalls : \A k \in DOMAIN calls[i].trace :
        (QuietInRun(calls[i], k) /\ Before(calls[i], k).noise_peak > burst_thresh)
        => After(calls[i], k).noise_start = Before(calls[i], k).noise_start

\* C13 amended: in either direction, a quiet slice reached while a run is
\* open whose running peak has not exceeded the burst threshold leaves the
\* run open (noise_start keeps its value across that slice); when the peak
\* has exceeded the burst threshold the quiet slice closes the run
\* (noise_start becomes none).
C13_PauseKeepsQuietRun ==
    \A i \in TrimCalls : \A k \in DOMAIN calls[i].trace :
        QuietInRun(calls[i], k) =>
            /\ Before(calls[i], k).noise_peak <= burst_thresh
               => After(calls[i], k).noise_start = Before(calls[i], k).noise_start
            /\ Before(calls[i], k).noise_peak > burst_thresh
               => After(calls[i], k).noise_start = None

C13_Witness ==
    /\ Len(calls) = 2
    /\ calls[1].fn = "trim_silence" /\ calls[1].trim = TRIM_END
    /\ calls[2].fn = "trim_silence" /\ calls[2].trim = TRIM_START
    /\ \E k \in DOMAIN calls[1].trace :
           /\ QuietInRun(calls[1], k)
           /\ Before(calls[1], k).noise_peak <= burst_thresh
           /\ After(calls[1], k).noise_start = Before(calls[1], k).noise_start
    /\ \E k \in DOMAIN calls[2].trace :
           /\ QuietInRun(calls[2], k)
           /\ Before(calls[2], k).noise_peak > burst_thresh
           /\ After(calls[2], k).noise_start = None

----------------------------------------------------------------------------
(* C14 *)

\* The run the scan of call c confirmed: the one the gap rule returned on,
\* or the one still open when the loop ended.
HasConfirmedRun(c) == c.trace # <<>> /\ LastState(c.trace).noise_start # None
ConfirmedRunStart(c) == LastState(c.trace).noise_start

\* C14: whenever trim_silence(START) confirms a run, by the gap rule or
\* because a run is still open when the scan completes, the result is
\* exactly the sub-range from that run's start offset to the end of the
\* waveform, with no leading margin.
C14_StartResult ==
    \A i \in TrimCalls :
        (calls[i].trim = TRIM_START /\ HasConfirmedRun(calls[i])) =>
            /\ calls[i].ret = Range(ConfirmedRunStart(calls[i]), len(calls[i].arg))
            /\ calls[i].val = Slice(calls[i].arg, ConfirmedRunStart(calls[i]),
                                    len(calls[i].arg))

----------------------------------------------------------------------------
(* C15 *)

Min(a, b) == IF a < b THEN a ELSE b

\* C15: whenever trim_silence(END) confirms a run, by the gap rule or at
\* the end of the scan, with start offset run_start, the result is the
\* sub-range from offset 0 to min(run_start + silence_slice + 200, length);
\* the end offset never exceeds the waveform length.
C15_EndResult ==
    \A i \in TrimCalls :
        (calls[i].trim = TRIM_END /\ HasConfirmedRun(calls[i])) =>
            /\ calls[i].ret =
                 Range(0, Min(ConfirmedRunStart(calls[i]) + silence_slice + 200,
                              len(calls[i].arg)))
            /\ calls[i].ret.hi <= len(calls[i].arg)
            /\ len(calls[i].val) = calls[i].ret.hi
            /\ calls[i].val.rms =
                 SubSeq(calls[i].arg.rms, 1, calls[i].ret.hi \div silence_slice)

\* A run confirmed by the gap rule on the first call, the result cut short
\* of the input; on the second call, over that result, the end offset
\* equals the length.
C15_Witness ==
    /\ Len(calls) = 2
    /\ calls[1].fn = "trim_silence" /\ calls[1].trim = TRIM_END
    /\ calls[2].fn = "trim_silence" /\ calls[2].trim = TRIM_END
    /\ HasConfirmedRun(calls[1])
    /\ LastState(calls[1].trace).ret # NoRet
    /\ calls[1].ret.hi = ConfirmedRunStart(calls[1]) + 210
    /\ calls[1].ret.hi < len(calls[1].arg)
    /\ HasConfirmedRun(calls[2])
    /\ calls[2].ret.hi = len(calls[2].arg)

----------------------------------------------------------------------------
(* C16 *)

\* Iteration k opened a run.
OpensRun(c, k) ==
    Before(c, k).noise_start = None /\ After(c, k).noise_start # None

\* The iteration that opened the run open after iteration k.
OpenedAt(c, k) ==
    CHOOSE j \in 1..k : OpensRun(c, j) /\ \A m \in (j + 1)..k : ~OpensRun(c, m)

\* The largest RMS among the noisy slices of iterations j..k.
PeakSince(c, j, k) ==
    CHOOSE r \in {StepRms(c, m) : m \in {n \in j..k : NoisyRms(StepRms(c, n))}} :
        \A m \in j..k : NoisyRms(StepRms(c, m)) => StepRms(c, m) <= r

\* C16: at every step of a scan noise_peak is none whenever no run is open,
\* and whenever a run is open noise_peak is the maximum RMS of the noisy
\* slices seen since noise_start was last set; the peak of an earlier,
\* closed run never carries over.
C16_PeakOfCurrentRun ==
    \A i \in TrimCalls : \A k \in DOMAIN calls[i].trace :
        IF After(calls[i], k).noise_start = None
        THEN After(calls[i], k).noise_peak = None
        ELSE After(calls[i], k).noise_peak =
                 PeakSince(calls[i], OpenedAt(calls[i], k), k)

----------------------------------------------------------------------------
(* C17 *)

\* C17: the scan works on the floor(length / silence_slice) whole slices:
\* it visits them in increasing offset order for START and decreasing order
\* for END, each at most once (all of them unless the gap rule returns
\* first), never the final partial slice; every value of noise_start is a
\* multiple of silence_slice and at most (floor(length / slice) - 1) * slice.
C17_SlicePartition ==
    \A i \in TrimCalls :
        LET c == calls[i]
            n == len(c.arg) \div silence_slice
        IN  /\ Len(c.trace) <= n
            /\ \A k \in DOMAIN c.trace :
                   /\ c.trace[k].idx =
                        (IF c.trim = TRIM_START THEN k - 1 ELSE n - k)
                   /\ (c.trace[k].idx + 1) * silence_slice <= len(c.arg)
                   /\ After(c, k).noise_start # None =>
                          /\ After(c, k).noise_start % silence_slice = 0
                          /\ After(c, k).noise_start >= 0
                          /\ After(c, k).noise_start <= (n - 1) * silence_slice
            /\ (len(c.arg) >= silence_slice /\ LastState(c.trace).ret = NoRet)
               => Len(c.trace) = n

C17_Witness ==
    /\ Len(calls) = 2
    /\ calls[1].fn = "trim_silence" /\ calls[1].trim = TRIM_END
    /\ calls[2].fn = "trim_silence" /\ calls[2].trim = TRIM_START
    /\ calls[1].arg.tail > 0
    /\ Len(calls[1].trace) = Slices(calls[1].arg)
    /\ Slices(calls[1].arg) > BurstLen
    /\ calls[1].trace[1].st.noise_start = (Slices(calls[1].arg) - 1) * silence_slice
    /\ calls[2].arg.tail > 0
    /\ LastState(calls[2].trace).ret # NoRet
    /\ Len(calls[2].trace) < Slices(calls[2].arg)

----------------------------------------------------------------------------
(* C18 *)

\* C18: every threshold comparison in the scan is strict.  A slice whose
\* RMS equals the silence threshold is quiet: it neither opens nor extends
\* a run nor raises the peak.  A run whose peak equals the burst threshold
\* counts as not having exceeded it at a quiet slice.  A noisy slice exactly
\* max_noise after the run's start does not confirm the run.
C18_StrictComparisons ==
    \A i \in TrimCalls : \A k \in DOMAIN calls[i].trace :
        LET c == calls[i]
        IN  /\ StepRms(c, k) = silence_thresh =>
                  /\ After(c, k).noise_peak = Before(c, k).noise_peak
                  /\ After(c, k).ret = NoRet
                  /\ After(c, k).noise_start \in {Before(c, k).noise_start, None}
            /\ (QuietInRun(c, k) /\ Before(c, k).noise_peak = burst_thresh) =>
                  After(c, k) = Before(c, k)
            /\ ( /\ NoisyRms(StepRms(c, k))
                 /\ Before(c, k).noise_start # None
                 /\ Abs(c.trace[k].idx * silence_slice - Before(c, k).noise_start)
                      = max_noise )
               => After(c, k).ret = NoRet

C18_Witness ==
    \E i \in TrimCalls : \E k, m \in DOMAIN calls[i].trace :
        LET c == calls[i]
        IN  /\ StepRms(c, k) = silence_thresh
            /\ Before(c, k).noise_start # None
            /\ Before(c, k).noise_peak = burst_thresh
            /\ After(c, k).noise_start = Before(c, k).noise_start
            /\ m > k
            /\ StepRms(c, m) = burst_thresh
            /\ Abs(c.trace[m].idx * silence_slice - Before(c, m).noise_start)
                 = max_noise
            /\ After(c, m).ret = NoRet

----------------------------------------------------------------------------
(* C19 *)

\* C19: for a waveform of at least one slice, a result returned by
\* trim_silence(START) is a contiguous sub-range of the input that ends at
\* the input's end, and one returned by trim_silence(END) is a contiguous
\* sub-range that starts at offset 0; the result is never longer than the
\* input, and the input itself is not modified.
C19_OwnEdgeOnly ==
    /\ \A i \in TrimCalls :
          LET c == calls[i]
          IN  (len(c.arg) >= silence_slice /\ ReturnedWaveform(c)) =>
                /\ 0 <= c.ret.lo /\ c.ret.lo <= c.ret.hi /\ c.ret.hi <= len(c.arg)
                /\ c.trim = TRIM_START => c.ret.hi = len(c.arg)
                /\ c.trim = TRIM_END => c.ret.lo = 0
                /\ len(c.val) = c.ret.hi - c.ret.lo
                /\ len(c.val) <= len(c.arg)
                /\ \A j \in 1..Slices(c.val) :
                       c.val.rms[j] = c.arg.rms[c.ret.lo \div silence_slice + j]
    /\ mode = "trim" =>
          \A i \in DOMAIN calls :
              calls[i].arg = (IF i = 1 THEN seg ELSE calls[i - 1].val)

C19_Witness ==
    /\ mode = "trim"
    /\ Len(calls) = 2
    /\ calls[1].trim = TRIM_START
    /\ calls[1].ret.kind = "range" /\ calls[1].ret.lo > 0
    /\ calls[2].trim = TRIM_END
    /\ calls[2].ret.kind = "range" /\ calls[2].ret.hi < len(calls[2].arg)
    /\ calls[1].arg = seg

----------------------------------------------------------------------------
(* C11, C12: the hash store across sync runs *)

\* The files a run selected, and the stored entry it found for a path.
Selected == {run.audio_files[k] : k \in DOMAIN run.audio_files}
StoredEntry(p) == load_info_file(run.store0)[Basename[p]]

\* The run now past its walk follows a run that saved the store.
AfterSavedRun == run.pc = "selected" /\ hist.n >= 1 /\ hist.last.outcome = "saved"

\* C11: change tracking reaches a fixpoint: a run that follows a
\* non-simulated run which processed its files and saved the store, with no
\* file changed in between, selects no file; and a run selects a file only
\* when the file's digest differs from the stored entry or there is none.
C11_Fixpoint ==
    /\ AfterSavedRun => run.audio_files = <<>>
    /\ run.pc = "selected" =>
         \A p \in Selected : StoredEntry(p) # get_file_sha1(run.disk0[p])

\* The run now past its walk follows a --simulate run.
AfterSimulatedRun == run.pc = "selected" /\ hist.n >= 1 /\ hist.last.simulate

\* C12: a --simulate run only lists the selected files: the media directory
\* and the stored clean_audio.json stay as the run found them, and the
\* non-simulated run that follows selects the same files.
C12_SimulateChangesNothing ==
    /\ (run.pc # "idle" /\ run.simulate) =>
         /\ disk = run.disk0
         /\ store = run.store0
    /\ (run.pc = "idle" /\ hist.n >= 1 /\ hist.last.simulate) =>
         /\ disk = hist.last.disk0
         /\ store = hist.last.store0
         /\ hist.last.audio_files # <<>> => printed = hist.last.audio_files
    /\ (AfterSimulatedRun /\ ~run.simulate) =>
         run.audio_files = hist.last.audio_files

\* C12 witness: a non-simulated run has selected the two files that the
\* --simulate run before it listed.
C12_Witness ==
    /\ AfterSimulatedRun /\ ~run.simulate
    /\ Len(run.audio_files) = 2
    /\ hist.last.outcome = "listed"

====
